---- MODULE Spec2Model ----
(***************************************************************************)
(* Joint classification and synthesis of Phobos (joints.py).               *)
(*                                                                         *)
(* One object of the scene is modelled: its single pose bone's constraint  *)
(* collection, its custom properties (the string-keyed metadata), its      *)
(* phobostype, whether it is selected, and its bone's direction vector.    *)
(* The object is the scene's active object and its bone the active pose    *)
(* bone, which is what DefineJointConstraintsOperator.execute establishes  *)
(* before it calls setJointConstraints.                                    *)
(*                                                                         *)
(* Floats are fixed-point integers in thousandths (1000 stands for 1.0).   *)
(* Python's None is the empty tuple <<>> for a list or tuple value and the *)
(* index 0 for a constraint looked up in the collection.                   *)
(***************************************************************************)
EXTENDS Integers, Sequences, FiniteSets, TLC

VARIABLES constraints, meta, phobostype, selected, bone, call, ret

vars == <<constraints, meta, phobostype, selected, bone, call, ret>>

\* Longest constraint collection the model follows.
MaxConstraints == 3

Axes == 1..3

\* defs.jointtypes and defs.motortypes (the items of the two EnumProperties).
jointtypes == {"revolute", "continuous", "prismatic", "fixed", "floating", "planar"}
motortypes == {"PID", "DC"}

\* What the callers pass: (lower, upper) pairs and the other float inputs.
LimitPairs == {<<0, 0>>, <<-1000, 1000>>, <<500, 500>>, <<1000, -1000>>}
OperatorLimitPairs == {<<0, 0>>}
EffortValues == {0, 2000}
TorqueValues == {2000}
VelocityValues == {1000}
PValues == {1000, 2000}
IValues == {0}
DValues == {500}
BoneVectors == {<<0, 2000, 0>>, <<3000, 0, 4000>>}
PhobosTypes == {"link", "visual"}

----------------------------------------------------------------------------
\* Numeric helpers

\* x / y rounded toward zero, for y > 0
Quot(x, y) == IF x >= 0 THEN x \div y ELSE -((-x) \div y)

RECURSIVE SqrtBetween(_, _, _)
SqrtBetween(n, lo, hi) ==
    IF lo >= hi THEN lo
    ELSE LET mid == (lo + hi + 1) \div 2
         IN IF mid * mid <= n THEN SqrtBetween(n, mid, hi)
            ELSE SqrtBetween(n, lo, mid - 1)

\* floor of the square root (46340 is the largest root of a 32-bit integer)
Sqrt(n) == SqrtBetween(n, 0, IF n < 46340 THEN n ELSE 46340)

\* math.radians(x) = x * pi / 180, with pi / 180 = 0.017453
radians(x) == Quot(x * 17453, 1000000)

\* mathutils.Vector.normalized(): the zero vector stays the zero vector
normalized(v) ==
    LET len == Sqrt(v[1] * v[1] + v[2] * v[2] + v[3] * v[3])
    IN IF len = 0 THEN v ELSE [a \in Axes |-> Quot(v[a] * 1000, len)]

\* Python's sum() over a list of three booleans
sum(flags) == Cardinality({a \in Axes : flags[a]})

----------------------------------------------------------------------------
\* The object's custom properties: joint[key] = value, key in joint

SetProp(m, k, v) == [x \in (DOMAIN m) \cup {k} |-> IF x = k THEN v ELSE m[x]]

----------------------------------------------------------------------------
\* deriveJointType

\* The last constraint of the kind in the collection (0: None).
getJointConstraint(cs, ctype) ==
    LET idx == {i \in 1..Len(cs) : cs[i].type = ctype}
    IN IF idx = {} THEN 0 ELSE CHOOSE i \in idx : \A j \in idx : j <= i

\* cloc after the loop: the flags of the last LIMIT_LOCATION, or None.
cloc(cs) ==
    LET i == getJointConstraint(cs, "LIMIT_LOCATION")
    IN IF i = 0 THEN <<>>
       ELSE [a \in Axes |-> cs[i].use_min[a] /\ cs[i].min[a] = cs[i].max[a]]

\* crot after the loop: the flags of the last LIMIT_ROTATION, or None.
crot(cs) ==
    LET i == getJointConstraint(cs, "LIMIT_ROTATION")
    IN IF i = 0 THEN <<>>
       ELSE [a \in Axes |-> cs[i].use_limit[a]
                            /\ (cs[i].min[a] # 0 \/ cs[i].max[a] # 0)]

\* ncrot: the number of active rotation limits, -1 for None.
ncrot(cs) ==
    LET i == getJointConstraint(cs, "LIMIT_ROTATION")
    IN IF i = 0 THEN -1 ELSE sum(cs[i].use_limit)

\* The decision table of deriveJointType.
jtype(cs) ==
    IF cloc(cs) # <<>>
    THEN LET ncloc == sum(cloc(cs))
         IN IF ncloc = 3
            THEN IF ncrot(cs) = 3
                 THEN IF sum(crot(cs)) > 0 THEN "revolute" ELSE "fixed"
                 ELSE IF ncrot(cs) = 2 THEN "continuous" ELSE "floating"
            ELSE IF ncloc = 2 THEN "prismatic"
            ELSE IF ncloc = 1 THEN "planar"
            ELSE "floating"
    ELSE "floating"

\* adjustType without the test of adjust: every mismatch is overwritten
adjustTypeAlways(m, cs, adjust) ==
    IF "joint/type" \in DOMAIN m /\ m["joint/type"] # jtype(cs)
    THEN SetProp(m, "joint/type", jtype(cs))
    ELSE m

\* The consistency check: the metadata deriveJointType leaves behind.
adjustType(m, cs, adjust) ==
    IF "joint/type" \in DOMAIN m /\ m["joint/type"] # jtype(cs) /\ adjust
    THEN SetProp(m, "joint/type", jtype(cs))
    ELSE m

----------------------------------------------------------------------------
\* getJointConstraints: what it returns or that it raised

Raised == [kind |-> "getJointConstraints", raised |-> TRUE,
           axis |-> <<>>, limits |-> <<>>]

Returned(axis, limits) == [kind |-> "getJointConstraints", raised |-> FALSE,
                           axis |-> axis, limits |-> limits]

\* freeloc of getJointConstraints, for the LIMIT_LOCATION constraint c
freeloc(c) == [a \in Axes |-> c.use_min[a] /\ c.use_max[a] /\ c.min[a] = c.max[a]]

\* rotationLimits without its last branch: a flag on Z alone gives no limits
rotationLimitsWithoutZ(c, cr) ==
    IF cr[1] THEN <<c.min[1], c.max[1]>>
    ELSE IF cr[2] THEN <<c.min[2], c.max[2]>>
    ELSE <<>>

\* the limits of the first rotation axis whose flag is set
rotationLimits(c, cr) ==
    IF cr[1] THEN <<c.min[1], c.max[1]>>
    ELSE IF cr[2] THEN <<c.min[2], c.max[2]>>
    ELSE IF cr[3] THEN <<c.min[3], c.max[3]>>
    ELSE <<>>

prismaticLimits(c) ==
    IF freeloc(c)[1] THEN <<c.min[1], c.max[1]>>
    ELSE IF freeloc(c)[2] THEN <<c.min[2], c.max[2]>>
    ELSE IF freeloc(c)[3] THEN <<c.min[3], c.max[3]>>
    ELSE <<>>

planarAxis(c) == [a \in Axes |-> IF freeloc(c)[a] THEN 1000 ELSE 0]

planarLimits(c) ==
    IF planarAxis(c)[1] # 0 THEN <<c.min[2], c.max[2], c.min[3], c.max[3]>>
    ELSE IF planarAxis(c)[2] # 0 THEN <<c.min[1], c.max[1], c.min[3], c.max[3]>>
    ELSE IF planarAxis(c)[3] # 0 THEN <<c.min[1], c.max[1], c.min[2], c.max[2]>>
    ELSE <<>>

getJointConstraints(cs, b) ==
    LET jt == jtype(cs)
        cr == crot(cs)
    IN IF jt \in {"floating", "fixed"} THEN Returned(<<>>, <<>>)
       ELSE IF jt \in {"revolute", "continuous"} /\ cr # <<>>
       THEN Returned(normalized(b),
                     rotationLimits(cs[getJointConstraint(cs, "LIMIT_ROTATION")], cr))
       ELSE LET i == getJointConstraint(cs, "LIMIT_LOCATION")
            IN IF i = 0 THEN Raised
               ELSE IF jt = "prismatic"
               THEN IF sum(freeloc(cs[i])) = 2
                    THEN Returned(normalized(b), prismaticLimits(cs[i]))
                    ELSE Raised
               ELSE IF jt = "planar"
               THEN IF sum(freeloc(cs[i])) = 1
                    THEN Returned(planarAxis(cs[i]), planarLimits(cs[i]))
                    ELSE Raised
               ELSE Returned(<<>>, <<>>)

----------------------------------------------------------------------------
\* setJointConstraints

AllTrue == <<TRUE, TRUE, TRUE>>
AllFalse == <<FALSE, FALSE, FALSE>>
Zero3 == <<0, 0, 0>>

\* bpy.ops.pose.constraint_add: a constraint as the host creates it
newConstraint(ctype) ==
    IF ctype = "LIMIT_LOCATION"
    THEN [type |-> ctype, use_min |-> AllFalse, use_max |-> AllFalse,
          min |-> Zero3, max |-> Zero3, owner_space |-> "WORLD"]
    ELSE [type |-> ctype, use_limit |-> AllFalse,
          min |-> Zero3, max |-> Zero3, owner_space |-> "WORLD"]

\* The collection after "for c in constraints: constraints.remove(c)".  The
\* loop removes entries of the collection it is iterating, so what the
\* iterator visits after an entry is gone is left to the host.  The first
\* entry is always visited and removed; every later entry is either visited
\* and removed or passed over and kept.
RECURSIVE subsequences(_)
subsequences(cs) ==
    IF cs = <<>> THEN {<<>>}
    ELSE LET rest == subsequences(Tail(cs))
         IN rest \cup {<<Head(cs)>> \o r : r \in rest}

removeOutcomes(cs) ==
    IF cs = <<>> THEN {<<>>} ELSE subsequences(Tail(cs))

\* the LIMIT_LOCATION constraint of the type's template
locationTemplate(jointtype, lower, upper) ==
    LET c == newConstraint("LIMIT_LOCATION")
        locked == [c EXCEPT !.use_min = AllTrue, !.use_max = AllTrue,
                            !.owner_space = "LOCAL"]
    IN IF jointtype \in {"revolute", "continuous", "fixed"} THEN locked
       ELSE IF jointtype = "prismatic"
       THEN IF lower = upper
            THEN [locked EXCEPT !.use_min[2] = FALSE, !.use_max[2] = FALSE]
            ELSE [locked EXCEPT !.min[2] = lower, !.max[2] = upper]
       ELSE \* planar
            [c EXCEPT !.use_min[2] = TRUE, !.use_max[2] = TRUE,
                      !.owner_space = "LOCAL"]

\* the LIMIT_ROTATION constraint of the type's template
rotationTemplate(jointtype, lower, upper) ==
    LET c == newConstraint("LIMIT_ROTATION")
        locked == [c EXCEPT !.use_limit = AllTrue, !.owner_space = "LOCAL"]
    IN IF jointtype = "revolute"
       THEN [locked EXCEPT !.min[2] = lower, !.max[2] = upper]
       ELSE IF jointtype = "continuous"
       THEN [locked EXCEPT !.use_limit[2] = FALSE]
       ELSE locked

\* the constraints the call adds behind those the removal left
installed(jointtype, lower, upper) ==
    IF jointtype \in {"revolute", "continuous", "prismatic", "fixed", "planar"}
    THEN <<locationTemplate(jointtype, lower, upper),
           rotationTemplate(jointtype, lower, upper)>>
    ELSE <<>>

\* constraint collection after the call, given what the removal left
setConstraints(left, ptype, jointtype, lower, upper) ==
    IF ptype = "link" THEN left \o installed(jointtype, lower, upper) ELSE left

\* metadata after the call
setType(m, ptype, jointtype) ==
    IF ptype = "link" THEN SetProp(m, "joint/type", jointtype) ELSE m

----------------------------------------------------------------------------
\* The operators' metadata writes

\* defineJointProps without the test for fixed
defineJointPropsAlways(m, joint_type, passive, maxeffort, maxvelocity) ==
    LET m1 == SetProp(SetProp(m, "joint/maxeffort", maxeffort),
                      "joint/maxvelocity", maxvelocity)
    IN IF passive THEN SetProp(m1, "joint/passive", TRUE) ELSE m1

\* the loop body of DefineJointConstraintsOperator.execute after the
\* setJointConstraints call
defineJointProps(m, joint_type, passive, maxeffort, maxvelocity) ==
    LET m1 == IF joint_type # "fixed"
              THEN SetProp(SetProp(m, "joint/maxeffort", maxeffort),
                           "joint/maxvelocity", maxvelocity)
              ELSE m
    IN IF passive THEN SetProp(m1, "joint/passive", TRUE) ELSE m1

\* vmax * 2 * math.pi
maxSpeed(vmax) == Quot(vmax * 2 * 31416, 10000)

\* attachMotorProps that drops the PID gains of a motor that is not PID
attachMotorPropsWholesale(m, ptype, P, I, D, vmax, taumax, motortype) ==
    IF ptype = "link"
    THEN LET m0 == [k \in (DOMAIN m) \ {"motor/p", "motor/i", "motor/d"} |-> m[k]]
             m1 == IF motortype = "PID"
                   THEN SetProp(SetProp(SetProp(m, "motor/p", P), "motor/i", I),
                                "motor/d", D)
                   ELSE m0
         IN SetProp(SetProp(SetProp(m1, "motor/maxSpeed", maxSpeed(vmax)),
                            "motor/maxEffort", taumax),
                    "motor/type", motortype)
    ELSE m

\* the loop body of AttachMotorOperator.execute
attachMotorProps(m, ptype, P, I, D, vmax, taumax, motortype) ==
    IF ptype = "link"
    THEN LET m1 == IF motortype = "PID"
                   THEN SetProp(SetProp(SetProp(m, "motor/p", P), "motor/i", I),
                                "motor/d", D)
                   ELSE m
         IN SetProp(SetProp(SetProp(m1, "motor/maxSpeed", maxSpeed(vmax)),
                            "motor/maxEffort", taumax),
                    "motor/type", motortype)
    ELSE m

----------------------------------------------------------------------------
\* Actions

NoReturn == [kind |-> "None"]

\* A new object: no constraints on its bone, no custom properties.
Init ==
    /\ constraints = <<>>
    /\ meta = <<>>
    /\ phobostype \in PhobosTypes
    /\ selected = TRUE
    /\ bone \in BoneVectors
    /\ call = [op |-> "none"]
    /\ ret = NoReturn

\* setJointConstraints(joint, jointtype, lower, upper)
SetJointConstraints ==
    \E left \in removeOutcomes(constraints) :
    \E jointtype \in jointtypes, limits \in LimitPairs :
      LET after == setConstraints(left, phobostype, jointtype, limits[1], limits[2])
      IN /\ Len(after) <= MaxConstraints
         /\ constraints' = after
         /\ meta' = setType(meta, phobostype, jointtype)
         /\ call' = [op |-> "setJointConstraints", jointtype |-> jointtype,
                     lower |-> limits[1], upper |-> limits[2]]
         /\ ret' = NoReturn
         /\ UNCHANGED <<phobostype, selected, bone>>

\* deriveJointType(joint, adjust)
DeriveJointType ==
    \E adjust \in BOOLEAN :
        /\ meta' = adjustType(meta, constraints, adjust)
        /\ call' = [op |-> "deriveJointType", adjust |-> adjust]
        /\ ret' = [kind |-> "deriveJointType", jtype |-> jtype(constraints),
                   crot |-> crot(constraints)]
        /\ UNCHANGED <<constraints, phobostype, selected, bone>>

\* getJointConstraints(joint)
GetJointConstraints ==
    /\ meta' = adjustType(meta, constraints, TRUE)
    /\ call' = [op |-> "getJointConstraints"]
    /\ ret' = getJointConstraints(constraints, bone)
    /\ UNCHANGED <<constraints, phobostype, selected, bone>>

\* DefineJointConstraintsOperator.execute
DefineJointConstraints ==
    \E left \in removeOutcomes(constraints) :
    \E joint_type \in jointtypes, degrees \in BOOLEAN, limits \in OperatorLimitPairs :
      LET lower == IF degrees THEN radians(limits[1]) ELSE limits[1]
          upper == IF degrees THEN radians(limits[2]) ELSE limits[2]
          after == setConstraints(left, phobostype, joint_type, lower, upper)
      IN /\ Len(after) <= MaxConstraints
         /\ \E passive \in BOOLEAN, maxeffort \in EffortValues,
               maxvelocity \in VelocityValues :
              /\ IF selected
                 THEN /\ constraints' = after
                      /\ meta' = defineJointProps(
                                     setType(meta, phobostype, joint_type),
                                     joint_type, passive, maxeffort, maxvelocity)
                 ELSE UNCHANGED <<constraints, meta>>
              /\ call' = [op |-> "DefineJointConstraintsOperator",
                          joint_type |-> joint_type, passive |-> passive,
                          maxeffort |-> maxeffort, maxvelocity |-> maxvelocity]
              /\ ret' = [kind |-> "FINISHED"]
              /\ UNCHANGED <<phobostype, selected, bone>>

\* AttachMotorOperator.execute
AttachMotor ==
    \E P \in PValues, I \in IValues, D \in DValues,
       vmax \in VelocityValues, taumax \in TorqueValues, motortype \in motortypes :
        /\ meta' = IF selected
                   THEN attachMotorProps(meta, phobostype, P, I, D, vmax, taumax, motortype)
                   ELSE meta
        /\ call' = [op |-> "AttachMotorOperator", P |-> P, I |-> I, D |-> D,
                    vmax |-> vmax, taumax |-> taumax, motortype |-> motortype]
        /\ ret' = [kind |-> "FINISHED"]
        /\ UNCHANGED <<constraints, phobostype, selected, bone>>

\* The synthesis and classification functions, called on one object.
Next ==
    \/ SetJointConstraints
    \/ DeriveJointType
    \/ GetJointConstraints

Spec == Init /\ [][Next]_vars

\* The two operators, run on a scene whose one object may be selected or not.
InitOps ==
    /\ constraints = <<>>
    /\ meta = <<>>
    /\ phobostype \in PhobosTypes
    /\ selected \in BOOLEAN
    /\ bone = <<3000, 0, 4000>>
    /\ call = [op |-> "none"]
    /\ ret = NoReturn

NextOps ==
    \/ DefineJointConstraints
    \/ AttachMotor
    \/ DeriveJointType
    \/ GetJointConstraints

SpecOps == InitOps /\ [][NextOps]_vars

\* Classification and extraction on a link in any constraint state: each
\* kind of constraint present or absent, every combination of the per-axis
\* flags, equal or different translation bounds, zero or non-zero rotation
\* ranges, and any stored joint/type or none.
TranslationRanges == {<<0, 0>>, <<0, 1000>>}
RotationRanges == {<<0, 0>>, <<0, 1000>>}

AnyLocation ==
    {[type |-> "LIMIT_LOCATION", use_min |-> umin, use_max |-> umax,
      min |-> [a \in Axes |-> rng[a][1]], max |-> [a \in Axes |-> rng[a][2]],
      owner_space |-> "LOCAL"] :
        umin \in [Axes -> BOOLEAN], umax \in [Axes -> BOOLEAN],
        rng \in [Axes -> TranslationRanges]}

AnyRotation ==
    {[type |-> "LIMIT_ROTATION", use_limit |-> ulim,
      min |-> [a \in Axes |-> rng[a][1]], max |-> [a \in Axes |-> rng[a][2]],
      owner_space |-> "LOCAL"] :
        ulim \in [Axes -> BOOLEAN], rng \in [Axes -> RotationRanges]}

InitAny ==
    /\ constraints \in {<<>>} \cup {<<l>> : l \in AnyLocation}
                            \cup {<<r>> : r \in AnyRotation}
                            \cup {<<l, r>> : l \in AnyLocation, r \in AnyRotation}
    /\ meta \in {<<>>} \cup {SetProp(<<>>, "joint/type", t) : t \in jointtypes}
    /\ phobostype = "link"
    /\ selected = TRUE
    /\ bone = <<3000, 0, 4000>>
    /\ call = [op |-> "none"]
    /\ ret = NoReturn

NextAny ==
    \/ DeriveJointType
    \/ GetJointConstraints

SpecAny == InitAny /\ [][NextAny]_vars

----------------------------------------------------------------------------
\* Properties

HasProp(m, k) == k \in DOMAIN m

\* the entry k is the same in m and n: absent in both, or the same value
SameProp(m, n, k) ==
    /\ HasProp(m, k) <=> HasProp(n, k)
    /\ HasProp(m, k) => m[k] = n[k]

CountOf(cs, ctype) == Cardinality({i \in 1..Len(cs) : cs[i].type = ctype})

\* C1: after setJointConstraints(link, T, lower, upper) on a link, with T one
\* of revolute, continuous, prismatic, fixed and lower <= upper, the type
\* derived from the constraints is T and the stored joint/type equals it.
C1_RoundTrip ==
    ( /\ call.op = "setJointConstraints"
      /\ phobostype = "link"
      /\ call.jointtype \in {"revolute", "continuous", "prismatic", "fixed"}
      /\ call.lower <= call.upper )
    => /\ jtype(constraints) = call.jointtype
       /\ HasProp(meta, "joint/type")
       /\ meta["joint/type"] = jtype(constraints)

\* C2: after setJointConstraints(link, 'prismatic', lower, upper) on a link
\* with lower < upper, getJointConstraints returns the normalized bone
\* direction as axis and (lower, upper) as limits.
C2_PrismaticLimits ==
    ( /\ call.op = "setJointConstraints"
      /\ phobostype = "link"
      /\ call.jointtype = "prismatic"
      /\ call.lower < call.upper )
    => getJointConstraints(constraints, bone)
         = Returned(normalized(bone), <<call.lower, call.upper>>)

\* C3 as stated: a getJointConstraints call that returns yields axis and
\* limits both None, exactly for the derived types fixed and floating, or
\* both not None, exactly for the other four types; and on a revolute or
\* continuous link with no rotation flag set the call fails.
C3_AxisAndLimitsTogether ==
    (call.op = "getJointConstraints") =>
       /\ ~ret.raised =>
            \/ /\ ret.axis = <<>> /\ ret.limits = <<>>
               /\ jtype(constraints) \in {"fixed", "floating"}
            \/ /\ ret.axis # <<>> /\ ret.limits # <<>>
               /\ jtype(constraints) \notin {"fixed", "floating"}
       /\ ( /\ jtype(constraints) \in {"revolute", "continuous"}
            /\ crot(constraints) = AllFalse ) => ret.raised

\* C3 as amended: a getJointConstraints call that returns yields axis None
\* exactly for the derived types fixed and floating, and limits None exactly
\* for those two types and for a continuous link with no rotation flag set,
\* which returns its axis without limits; limits are never returned without
\* an axis, and a revolute or continuous link never makes the call fail.
C3_AxisLimitsAmended ==
    (call.op = "getJointConstraints") =>
       /\ ~ret.raised =>
            /\ ret.axis = <<>> <=> jtype(constraints) \in {"fixed", "floating"}
            /\ ret.limits = <<>> <=>
                 \/ jtype(constraints) \in {"fixed", "floating"}
                 \/ /\ jtype(constraints) = "continuous"
                    /\ crot(constraints) = AllFalse
            /\ ret.limits # <<>> => ret.axis # <<>>
       /\ jtype(constraints) \in {"revolute", "continuous"} => ~ret.raised

\* C3 witness: a continuous link with no rotation flag set, on which the
\* call returned an axis and no limits.
C3_Witness ==
    /\ call.op = "getJointConstraints"
    /\ ~ret.raised
    /\ jtype(constraints) = "continuous"
    /\ crot(constraints) = AllFalse
    /\ ret.axis # <<>>
    /\ ret.limits = <<>>

C6_FixedNoEffortWrite ==
    [][ (call'.op = "DefineJointConstraintsOperator" /\ selected) =>
          IF call'.joint_type = "fixed"
          THEN /\ SameProp(meta, meta', "joint/maxeffort")
               /\ SameProp(meta, meta', "joint/maxvelocity")
          ELSE /\ HasProp(meta', "joint/maxeffort")
               /\ meta'["joint/maxeffort"] = call'.maxeffort
               /\ HasProp(meta', "joint/maxvelocity")
               /\ meta'["joint/maxvelocity"] = call'.maxvelocity ]_vars

\* C6 witness: a fixed apply on a selected object whose joint/maxeffort, set
\* by an earlier apply, differs from the operator's input.
C6_Witness ==
    /\ call.op = "DefineJointConstraintsOperator"
    /\ selected
    /\ call.joint_type = "fixed"
    /\ HasProp(meta, "joint/maxeffort")
    /\ meta["joint/maxeffort"] # call.maxeffort

\* C7: after AttachMotorOperator.execute on a selected link every motor/*
\* entry comes from the inputs of that call; PID gains are present only if
\* the call's motortype is PID.
C7_MotorOverwrittenWholesale ==
    (call.op = "AttachMotorOperator" /\ selected /\ phobostype = "link") =>
       /\ HasProp(meta, "motor/type") /\ meta["motor/type"] = call.motortype
       /\ HasProp(meta, "motor/maxEffort") /\ meta["motor/maxEffort"] = call.taumax
       /\ HasProp(meta, "motor/maxSpeed")
       /\ HasProp(meta, "motor/p") => (call.motortype = "PID" /\ meta["motor/p"] = call.P)
       /\ HasProp(meta, "motor/i") => (call.motortype = "PID" /\ meta["motor/i"] = call.I)
       /\ HasProp(meta, "motor/d") => (call.motortype = "PID" /\ meta["motor/d"] = call.D)

\* C8: the type deriveJointType returns is that of the decision table with
\* nLocT the number of translation axes whose bounds are equal and both
\* active, and nLimR the number of rotation axes with an active limit.
C8_DecisionTable ==
    (call.op = "deriveJointType") =>
       LET cs == constraints
           li == getJointConstraint(cs, "LIMIT_LOCATION")
           ri == getJointConstraint(cs, "LIMIT_ROTATION")
           nLocT == IF li = 0 THEN 0
                    ELSE Cardinality({a \in Axes : /\ cs[li].use_min[a]
                                                   /\ cs[li].use_max[a]
                                                   /\ cs[li].min[a] = cs[li].max[a]})
           nLimR == IF ri = 0 THEN 0
                    ELSE Cardinality({a \in Axes : cs[ri].use_limit[a]})
           nonZero == ri # 0 /\ \E a \in Axes :
                         /\ cs[ri].use_limit[a]
                         /\ (cs[ri].min[a] # 0 \/ cs[ri].max[a] # 0)
       IN ret.jtype =
            IF li = 0 THEN "floating"
            ELSE IF nLocT = 3 /\ nLimR = 3
                 THEN (IF nonZero THEN "revolute" ELSE "fixed")
            ELSE IF nLocT = 3 /\ nLimR = 2 THEN "continuous"
            ELSE IF nLocT = 2 THEN "prismatic"
            ELSE IF nLocT = 1 THEN "planar"
            ELSE "floating"

C10_KeysOnlyAdded ==
    [][ /\ DOMAIN meta \subseteq DOMAIN meta'
        /\ (HasProp(meta, "joint/passive") /\ meta["joint/passive"])
              => meta'["joint/passive"]
        /\ (call'.op = "DefineJointConstraintsOperator" /\ call'.joint_type = "fixed")
              => \A k \in {"joint/maxeffort", "joint/maxvelocity"} :
                    HasProp(meta, k) => meta'[k] = meta[k]
        /\ (call'.op = "AttachMotorOperator" /\ call'.motortype = "DC")
              => \A k \in {"motor/p", "motor/i", "motor/d"} :
                    HasProp(meta, k) => meta'[k] = meta[k] ]_vars

\* C10 witness: the link's motor type is DC after an attach with DC, and the
\* gains of an earlier PID attach are still there.
C10_Witness ==
    /\ call.op = "AttachMotorOperator"
    /\ call.motortype = "DC"
    /\ HasProp(meta, "motor/type") /\ meta["motor/type"] = "DC"
    /\ HasProp(meta, "motor/p")
    /\ HasProp(meta, "joint/passive")

====
